---------------------------- MODULE Spec2Model ----------------------------
(***************************************************************************)
(* Model of the "robust" gamepass proxy of src/index.js (lines 121-374):   *)
(* the retrying transport fetchJsonWithRetries, the pager                  *)
(* fetchAllGamepassesForUser, the result cache, the in-flight map and the  *)
(* GET /gamepasses/:userId handler.                                        *)
(*                                                                         *)
(* JavaScript strings are modelled as sequences of one-character strings,  *)
(* so that trimming, parsing and concatenation are computed, not assumed.  *)
(* JavaScript values are records [t, n, s]: t is the type tag, n the       *)
(* number (when t = "num"), s the string (when t = "str").                 *)
(***************************************************************************)
EXTENDS Integers, Sequences, FiniteSets, TLC

\* ------------------------------------------------------------------------
\* Configuration (src/index.js, "Configurable options")
\* ------------------------------------------------------------------------
CACHE_TTL_MS == 60000

REQUEST_TIMEOUT_MS == 10000

MAX_RETRIES == 3

RETRY_BASE_DELAY_MS == 400

\* ------------------------------------------------------------------------
\* Bounds of the model
\* ------------------------------------------------------------------------
\* number of inbound requests in one behaviour
MaxReq == 3

\* number of primary pages the upstream serves with a continuation cursor
\* before it is made to end the pagination
MaxPages == 2

\* number of failing upstream attempts in one behaviour
MaxFaults == 4

\* number of times the clock is advanced between events
MaxTicks == 1

\* ------------------------------------------------------------------------
\* JavaScript values
\* ------------------------------------------------------------------------
Undef == [t |-> "undef", n |-> 0, s |-> <<>>]

Null == [t |-> "null", n |-> 0, s |-> <<>>]

NaN == [t |-> "nan", n |-> 0, s |-> <<>>]

Num(k) == [t |-> "num", n |-> k, s |-> <<>>]

Str(q) == [t |-> "str", n |-> 0, s |-> q]

\* typeof v === "number" (NaN is a number)
IsNumber(v) == v.t \in {"num", "nan"}

\* ToBoolean
Truthy(v) ==
  CASE v.t = "num" -> v.n # 0
    [] v.t = "str" -> v.s # <<>>
    [] OTHER -> FALSE

\* a || b
Or(a, b) == IF Truthy(a) THEN a ELSE b

Digits == <<"0", "1", "2", "3", "4", "5", "6", "7", "8", "9">>

IsDigit(c) == \E i \in 1..10 : Digits[i] = c

DigitVal(c) == (CHOOSE i \in 1..10 : Digits[i] = c) - 1

IsSpace(c) == c = " "

RECURSIVE NatToStr(_)
\* decimal digits of a natural number
NatToStr(k) ==
  IF k < 10 THEN <<Digits[k + 1]>>
  ELSE NatToStr(k \div 10) \o <<Digits[(k % 10) + 1]>>

\* Number.prototype.toString for integers
NumToStr(k) == IF k < 0 THEN <<"-">> \o NatToStr(0 - k) ELSE NatToStr(k)

\* ToString, as applied by "Gamepass " + id and by String(x)
ToStr(v) ==
  CASE v.t = "num" -> NumToStr(v.n)
    [] v.t = "str" -> v.s
    [] v.t = "undef" -> <<"u", "n", "d", "e", "f", "i", "n", "e", "d">>
    [] v.t = "null" -> <<"n", "u", "l", "l">>
    [] OTHER -> <<"N", "a", "N">>

RECURSIVE TrimLeft(_)
TrimLeft(q) == IF q # <<>> /\ IsSpace(Head(q)) THEN TrimLeft(Tail(q)) ELSE q

RECURSIVE TrimRight(_)
TrimRight(q) ==
  IF q # <<>> /\ IsSpace(q[Len(q)]) THEN TrimRight(SubSeq(q, 1, Len(q) - 1))
  ELSE q

\* String.prototype.trim
Trim(q) == TrimRight(TrimLeft(q))

RECURSIVE DigitsValue(_)
\* value of a sequence of digits
DigitsValue(q) ==
  IF q = <<>> THEN 0
  ELSE 10 * DigitsValue(SubSeq(q, 1, Len(q) - 1)) + DigitVal(q[Len(q)])

AllDigits(q) == \A i \in 1..Len(q) : IsDigit(q[i])

RECURSIVE LeadingDigits(_)
\* the longest prefix of digits
LeadingDigits(q) ==
  IF q # <<>> /\ IsDigit(Head(q)) THEN <<Head(q)>> \o LeadingDigits(Tail(q))
  ELSE <<>>

\* Number(string): the whole trimmed string must be a numeral; "" is 0
StrToNumber(q) ==
  LET w == Trim(q) IN
  IF w = <<>> THEN Num(0)
  ELSE IF AllDigits(w) THEN Num(DigitsValue(w))
  ELSE IF Head(w) = "-" /\ Len(w) > 1 /\ AllDigits(Tail(w))
       THEN Num(0 - DigitsValue(Tail(w)))
  ELSE NaN

\* Number(v)
ToNumber(v) ==
  CASE v.t = "num" -> v
    [] v.t = "str" -> StrToNumber(v.s)
    [] v.t = "null" -> Num(0)
    [] OTHER -> NaN

\* parseInt(string, 10): leading blanks skipped, an optional sign, then the
\* longest run of digits; NaN when there is none
parseInt(q) ==
  LET w == TrimLeft(q)
      neg == w # <<>> /\ Head(w) = "-"
      body == IF w # <<>> /\ Head(w) \in {"-", "+"} THEN Tail(w) ELSE w
      ds == LeadingDigits(body)
  IN IF ds = <<>> THEN NaN
     ELSE Num(IF neg THEN 0 - DigitsValue(ds) ELSE DigitsValue(ds))

\* ------------------------------------------------------------------------
\* Raw upstream records and their normalization (fetchAllGamepassesForUser)
\* ------------------------------------------------------------------------
\* a raw record: the five properties the code reads; Undef when absent
Raw(aid, rid, nm, ti, pr) ==
  [assetId |-> aid, id |-> rid, name |-> nm, title |-> ti, price |-> pr]

Gamepass == <<"G", "a", "m", "e", "p", "a", "s", "s", " ">>

\* "Gamepass " + id
Placeholder(id) == Str(Gamepass \o ToStr(id))

\* gp.name || gp.title || ("Gamepass " + id)
NameOf(gp, id) == Or(Or(gp.name, gp.title), Placeholder(id))

\* the price coerced without the default for a missing one
PriceOfNoDefault(p) == IF IsNumber(p) THEN p ELSE ToNumber(p)

\* (typeof p === "number") ? p : (p ? Number(p) : 0)
PriceOf(p) == IF IsNumber(p) THEN p ELSE IF Truthy(p) THEN ToNumber(p) ELSE Num(0)

\* gp.assetId || gp.assetId === 0 ? gp.assetId : (gp.id || gp.assetId)
IdOfData(gp) ==
  IF Truthy(gp.assetId) \/ gp.assetId = Num(0) THEN gp.assetId
  ELSE Or(gp.id, gp.assetId)

\* gp.assetId || gp.id || gp.assetId
IdOfAlias(gp) == Or(Or(gp.assetId, gp.id), gp.assetId)

\* if (id !== undefined && id !== null) collected.push({ id, name, price })
Keep(id, gp) ==
  IF id # Undef /\ id # Null
  THEN <<[id |-> id, name |-> NameOf(gp, id), price |-> PriceOf(gp.price)]>>
  ELSE <<>>

\* one record of an object-with-data page
NormalizeData(gp) == Keep(IdOfData(gp), gp)

\* one record of a bare-collection page
NormalizeBare(gp) == Keep(IdOfAlias(gp), gp)

\* one record of the fallback endpoint's page
NormalizeFallback(gp) == Keep(IdOfAlias(gp), gp)

RECURSIVE Pushed(_)
\* collected after the pushes of a loop over a collection, qq[i] being what
\* the i-th iteration pushes
Pushed(qq) ==
  IF qq = <<>> THEN <<>> ELSE Head(qq) \o Pushed(Tail(qq))

\* the handler's map: { id: Number(p.id), name: String(p.name || ...), price }
Normalized(p) ==
  [id |-> ToNumber(p.id),
   name |-> Str(ToStr(Or(p.name, Placeholder(p.id)))),
   price |-> PriceOf(p.price)]

NormalizedAll(q) == [i \in 1..Len(q) |-> Normalized(q[i])]

\* ------------------------------------------------------------------------
\* Parsed bodies
\* ------------------------------------------------------------------------
\* shape "obj": an object; isArr says whether its "data" is an array, items
\* holds that array; shape "arr": a bare collection in items; shape "null":
\* a falsy value.  wrap marks the objects the transport builds itself:
\* "error" for { error, body } and "raw" for { raw }, with the text wrapped.
Body(sh, arr, its, cur) ==
  [shape |-> sh, isArr |-> arr, items |-> its, nextPageCursor |-> cur,
   wrap |-> "none", text |-> "", status |-> 0]

ErrorWrap(st, txt) ==
  [shape |-> "obj", isArr |-> FALSE, items |-> <<>>, nextPageCursor |-> Undef,
   wrap |-> "error", text |-> txt, status |-> st]

RawWrap(txt) ==
  [shape |-> "obj", isArr |-> FALSE, items |-> <<>>, nextPageCursor |-> Undef,
   wrap |-> "raw", text |-> txt, status |-> 0]

\* the body null
NullBody == Body("null", FALSE, <<>>, Undef)

\* ------------------------------------------------------------------------
\* Upstream responses
\* ------------------------------------------------------------------------
\* what one fetch() settles with.  kind "reject": the fetch promise rejects
\* (err "network", or "abort" when the attempt's timeout fired).  kind
\* "http": a response with a status, the retry-after and content-type
\* headers, and a body that may be unreadable (the stream fails), readable
\* but not JSON, or JSON (json is what JSON.parse gives for text).
Reject(e) ==
  [kind |-> "reject", err |-> e, status |-> 0, retryAfter |-> Null,
   ctype |-> "", readable |-> FALSE, parses |-> FALSE, text |-> "",
   json |-> NullBody]

Http(st, ra, ct, rd, ps, tx, j) ==
  [kind |-> "http", err |-> "", status |-> st, retryAfter |-> ra,
   ctype |-> ct, readable |-> rd, parses |-> ps, text |-> tx, json |-> j]

\* ------------------------------------------------------------------------
\* Time
\* ------------------------------------------------------------------------
\* Date.now() is not kept: every deadline is kept as the time left until it
\* (expiresAt - now, the time until a timer is due), and the passing of d
\* milliseconds lowers each of them by d.  A deadline reached stays at 0.
Max(a, b) == IF a >= b THEN a ELSE b

Min(a, b) == IF a <= b THEN a ELSE b

Left(x, d) == Max(x - d, 0)

\* ------------------------------------------------------------------------
\* fetchJsonWithRetries: one logical transport call
\* ------------------------------------------------------------------------
\* an Error: msg tells the kinds apart ("network": fetch rejected, "abort":
\* the attempt timed out, "body": the body could not be read or parsed,
\* "HTTP": new Error(`HTTP ${response.status}`), with the status)
Error(msg, st) == [msg |-> msg, status |-> st]

\* let lastErr = null
NoError == Error("", 0)

\* the response a pending sleep follows
NoCause == [kind |-> "", err |-> "", status |-> 0, retryAfter |-> Null]

CauseOf(r) ==
  [kind |-> r.kind, err |-> r.err, status |-> r.status, retryAfter |-> r.retryAfter]

\* the state of one call: attempt and lastErr are the function's locals; st
\* is where it is suspended ("fetch": awaiting fetch(), "sleep": awaiting
\* sleep()); timeLeft is the time until the pending fetch is aborted;
\* remaining the time until the pending sleep's timer is due, slept the time
\* spent in the last sleep (counted up to its delay), wait the delay it
\* asked for; nfetch counts the
\* fetches issued by this call; cause is the response that led to the sleep.
NoCall ==
  [url |-> "", cursor |-> Undef, attempt |-> 0, lastErr |-> NoError, st |-> "idle",
   timeLeft |-> 0, wait |-> Num(0), remaining |-> 0, slept |-> 0, nfetch |-> 0,
   cause |-> NoCause]

\* the call as it is suspended at its first await fetch(...), the abort
\* timer set to REQUEST_TIMEOUT_MS
NewCall(url, cursor) ==
  [NoCall EXCEPT !.url = url, !.cursor = cursor, !.st = "fetch",
                 !.timeLeft = REQUEST_TIMEOUT_MS, !.nfetch = 1]

\* setTimeout's delay for sleep(ms): a delay that is NaN or below 1 is 1
TimerDelay(w) == IF w.t = "num" /\ w.n >= 1 THEN w.n ELSE 1

\* v * 1000
Times1000(v) == IF v.t = "num" THEN Num(v.n * 1000) ELSE NaN

\* RETRY_BASE_DELAY_MS * Math.pow(2, attempt)
Backoff(attempt) == Num(RETRY_BASE_DELAY_MS * (2 ^ attempt))

\* retryAfter ? parseInt(retryAfter, 10) * 1000 : backoff
RetryWait(retryAfter, attempt) ==
  IF Truthy(retryAfter) THEN Times1000(parseInt(retryAfter.s))
  ELSE Backoff(attempt)

\* await sleep(w), with attempt already counted
Sleeping(c, w, r) ==
  [c EXCEPT !.st = "sleep", !.wait = w, !.remaining = TimerDelay(w),
            !.slept = 0, !.timeLeft = 0, !.cause = CauseOf(r)]

\* the 429/503 branch counting the attempt before it computes the wait, as
\* the other branches do
OnThrottleCounted(c, r) ==
  Sleeping([c EXCEPT !.attempt = c.attempt + 1],
           RetryWait(r.retryAfter, c.attempt + 1), r)

\* the 429/503 branch: sleep(wait); attempt++
OnThrottle(c, r) ==
  Sleeping([c EXCEPT !.attempt = c.attempt + 1],
           RetryWait(r.retryAfter, c.attempt), r)

\* the 5xx branch: lastErr = HTTP status; attempt++; sleep(backoff(attempt))
OnServerError(c, r) ==
  Sleeping([c EXCEPT !.attempt = c.attempt + 1, !.lastErr = Error("HTTP", r.status)],
           Backoff(c.attempt + 1), r)

\* the catch block: lastErr = err; attempt++; sleep(backoff(attempt))
OnCatch(c, e, r) ==
  Sleeping([c EXCEPT !.attempt = c.attempt + 1, !.lastErr = e],
           Backoff(c.attempt + 1), r)

\* the call once it has returned or thrown
Settled(c) == [c EXCEPT !.st = "idle", !.timeLeft = 0]

\* a 4xx body that is not JSON taken as a failure of the call
On4xxThrowing(c, r) ==
  IF ~r.readable THEN <<OnCatch(c, Error("HTTP", r.status), r), "retry", r.json>>
  ELSE IF r.parses THEN <<Settled(c), "return", r.json>>
  ELSE <<Settled([c EXCEPT !.lastErr = Error("HTTP", r.status)]), "throw", NullBody>>

\* the 4xx branch: the body read as text and parsed, returned as it is or
\* as { error, body }; a body that cannot be read throws into the catch
On4xx(c, r) ==
  IF ~r.readable THEN <<OnCatch(c, Error("HTTP", r.status), r), "retry", r.json>>
  ELSE IF r.parses THEN <<Settled(c), "return", r.json>>
  ELSE <<Settled(c), "return", ErrorWrap(r.status, r.text)>>

\* every unparsable 2xx body wrapped, whatever the content type
On2xxWrapping(c, r) ==
  IF ~r.readable THEN <<OnCatch(c, Error("body", 0), r), "retry", r.json>>
  ELSE IF r.parses THEN <<Settled(c), "return", r.json>>
  ELSE <<Settled(c), "return", RawWrap(r.text)>>

\* the 2xx branch: response.json() for application/json and text/plain,
\* whose failure throws into the catch; otherwise the text, parsed or
\* wrapped as { raw }
On2xx(c, r) ==
  IF r.ctype \in {"json", "plain"}
  THEN IF r.readable /\ r.parses THEN <<Settled(c), "return", r.json>>
       ELSE <<OnCatch(c, Error("body", 0), r), "retry", r.json>>
  ELSE IF ~r.readable THEN <<OnCatch(c, Error("body", 0), r), "retry", r.json>>
  ELSE IF r.parses THEN <<Settled(c), "return", r.json>>
  ELSE <<Settled(c), "return", RawWrap(r.text)>>

\* one response handled by the loop body.  The result is <<call, outcome,
\* data>>: outcome "retry" (the call sleeps), or "return" with the data.
OnResponse(c, r) ==
  IF r.kind = "reject" THEN <<OnCatch(c, Error(r.err, 0), r), "retry", r.json>>
  ELSE IF r.status = 429 \/ r.status = 503
       THEN <<OnThrottle(c, r), "retry", r.json>>
  ELSE IF r.status >= 400 /\ r.status < 500 THEN On4xx(c, r)
  ELSE IF r.status >= 500 THEN <<OnServerError(c, r), "retry", r.json>>
  ELSE On2xx(c, r)

\* the loop bound off by one
LoopContinuesOnceMore(c) == c.attempt <= MAX_RETRIES + 1

\* while (attempt <= retries)
LoopContinues(c) == c.attempt <= MAX_RETRIES

\* the sleep is over: the next fetch is issued, or the loop ends and the
\* call throws lastErr || new Error("Failed to fetch after retries")
OnWake(c) ==
  IF LoopContinues(c)
  THEN <<[c EXCEPT !.st = "fetch", !.timeLeft = REQUEST_TIMEOUT_MS,
                   !.nfetch = c.nfetch + 1],
         "retry", NullBody>>
  ELSE <<Settled(c), "throw", NullBody>>

\* what the call throws once the loop has ended
ThrownBy(c) ==
  IF c.lastErr # NoError THEN c.lastErr
  ELSE Error("Failed to fetch after retries", 0)

\* d milliseconds pass for a call
CallElapse(c, d) ==
  CASE c.st = "fetch" -> [c EXCEPT !.timeLeft = Left(c.timeLeft, d)]
    [] c.st = "sleep" -> [c EXCEPT !.remaining = Left(c.remaining, d),
                                   !.slept = Min(c.slept + d, TimerDelay(c.wait))]
    [] OTHER -> c

\* ------------------------------------------------------------------------
\* fetchAllGamepassesForUser: one traversal
\* ------------------------------------------------------------------------
\* st: "idle" (never started), "run", "ok" (returned), "fail" (threw).
\* cursor and collected are the function's locals, call the transport call
\* it awaits.  History kept for the properties: sent (the cursor carried by
\* each primary call), pages (the primary pages received), fallbacks (the
\* transport calls made to the secondary endpoint), fbFetches (the fetches
\* issued to it), fbPages (what the secondary endpoint's calls returned).
\* result is what the in-flight promise resolves with, error what it
\* rejects with.
NoTrav ==
  [st |-> "idle", key |-> <<>>, phase |-> "", cursor |-> Null,
   collected |-> <<>>, call |-> NoCall, sent |-> <<>>, pages |-> <<>>,
   fallbacks |-> 0, fbFetches |-> 0, fbPages |-> <<>>, result |-> <<>>,
   error |-> NoError]

\* the traversal suspended at its first await fetchJsonWithRetries(url)
NewTrav(key) ==
  [NoTrav EXCEPT !.st = "run", !.key = key, !.phase = "primary",
                 !.call = NewCall("primary", Null), !.sent = <<Null>>]

\* the records one primary page adds to collected
PageRecords(d) ==
  IF d.shape = "obj" /\ d.isArr /\ Len(d.items) > 0
  THEN Pushed([i \in 1..Len(d.items) |-> NormalizeData(d.items[i])])
  ELSE IF d.shape = "arr" /\ Len(d.items) > 0
  THEN Pushed([i \in 1..Len(d.items) |-> NormalizeBare(d.items[i])])
  ELSE <<>>

\* (data.nextPageCursor && data.nextPageCursor.length > 0) ? ... : null
NextCursor(d) ==
  IF d.shape = "obj" /\ d.nextPageCursor.t = "str" /\ d.nextPageCursor.s # <<>>
  THEN d.nextPageCursor
  ELSE Null

\* the records the fallback page adds to collected
FallbackRecords(fb) ==
  IF fb.shape = "obj" /\ fb.isArr /\ Len(fb.items) > 0
  THEN Pushed([i \in 1..Len(fb.items) |-> NormalizeFallback(fb.items[i])])
  ELSE <<>>

\* return collected; the in-flight promise maps it to its result
Returned(tr, collected) ==
  [tr EXCEPT !.st = "ok", !.phase = "", !.collected = collected,
             !.result = NormalizedAll(collected)]

\* the traversal throws e
Thrown(tr, e) == [tr EXCEPT !.st = "fail", !.phase = "", !.error = e]

\* the fallback tried whatever was collected
NeedsFallbackAlways(collected) == TRUE

\* if (collected.length === 0)
NeedsFallback(collected) == Len(collected) = 0

\* after the do-while loop: the fallback call is issued when nothing was
\* collected, otherwise collected is returned
AfterLoop(tr, collected) ==
  IF NeedsFallback(collected)
  THEN [tr EXCEPT !.phase = "fallback", !.collected = collected,
                  !.call = NewCall("fallback", Undef),
                  !.fallbacks = tr.fallbacks + 1, !.fbFetches = tr.fbFetches + 1]
  ELSE Returned(tr, collected)

\* the cursor of the previous call sent again
CursorToSendStale(tr, cursor) == tr.cursor

\* the cursor the next primary call carries
CursorToSend(tr, cursor) == cursor

\* the transport call returned d to the primary loop
OnPage(tr, d) ==
  LET seen == [tr EXCEPT !.pages = Append(tr.pages, d)] IN
  IF d.shape = "null" THEN AfterLoop(seen, tr.collected)
  ELSE LET collected == tr.collected \o PageRecords(d)
           cursor == NextCursor(d)
       IN IF cursor # Null
          THEN [seen EXCEPT !.collected = collected, !.cursor = cursor,
                            !.call = NewCall("primary", CursorToSend(tr, cursor)),
                            !.sent = Append(tr.sent, CursorToSend(tr, cursor))]
          ELSE AfterLoop([seen EXCEPT !.cursor = Null], collected)

\* the transport call returned d
OnData(tr, d) ==
  IF tr.phase = "primary" THEN OnPage(tr, d)
  ELSE Returned([tr EXCEPT !.fbPages = Append(tr.fbPages, d)],
                tr.collected \o FallbackRecords(d))

\* the fallback's try/catch left out
OnThrowAlways(tr, e) == Thrown(tr, e)

\* a primary failure swallowed like a fallback failure: what was collected
\* so far is returned
OnThrowPartial(tr, e) == Returned(tr, tr.collected)

\* the transport call threw e: the primary loop lets it through, the
\* fallback's try/catch swallows it
OnThrow(tr, e) ==
  IF tr.phase = "primary" THEN Thrown(tr, e)
  ELSE Returned(tr, tr.collected)

\* the traversal after its transport call made the step <<call, outcome, x>>
AfterStep(tr, step) ==
  LET held == [tr EXCEPT !.call = step[1]] IN
  CASE step[2] = "return" -> OnData(held, step[3])
    [] step[2] = "throw" -> OnThrow(held, ThrownBy(step[1]))
    [] OTHER ->
         IF tr.phase = "fallback" /\ step[1].nfetch > tr.call.nfetch
         THEN [held EXCEPT !.fbFetches = tr.fbFetches + 1]
         ELSE held

\* d milliseconds pass for a traversal
TravElapse(tr, d) ==
  IF tr.st = "run" THEN [tr EXCEPT !.call = CallElapse(tr.call, d)] ELSE tr

\* ------------------------------------------------------------------------
\* State
\* ------------------------------------------------------------------------
VARIABLES
  ticks,     \* how often the clock was advanced between events
  faults,    \* failing upstream attempts so far
  cache,     \* the cache Map: key -> { expiresAt, data }
  inFlight,  \* the inFlight Map: key -> the request whose promise is stored
  trav,      \* per request: the traversal its handler started
  req,       \* per request: its handler's position and its response
  arrived    \* number of requests received

vars == <<ticks, faults, cache, inFlight, trav, req, arrived>>

Requests == 1..MaxReq

\* req.params.userId as received
UserIds == {<<"7">>, <<" ", "7", " ">>, <<" ", " ">>}

\* the key taken without trimming
KeyOfUntrimmed(u) == u

\* String(req.params.userId || "").trim()
KeyOf(u) == Trim(u)

\* the strings the two Maps are indexed by
Keys == UserIds \cup {Trim(u) : u \in UserIds}

\* a cache entry: expiresIn is expiresAt - now, age the time since it was
\* stored (kept up to CACHE_TTL_MS)
NoEntry == [has |-> FALSE, expiresIn |-> 0, age |-> 0, data |-> <<>>]

NoResponse == [status |-> 0, error |-> "", gamePasses |-> <<>>]

\* st: "new" (not received), "wait" (awaiting a promise), "done"; on: the
\* request whose promise it awaits; via: how it was served; seen: the cache
\* entry of its key when it was received
NoReq ==
  [st |-> "new", userId |-> <<>>, key |-> <<>>, on |-> 0, via |-> "",
   seen |-> NoEntry, resp |-> NoResponse]

\* res.json({ gamePasses })
Json200(list) == [status |-> 200, error |-> "", gamePasses |-> list]

\* res.status(code).json({ error })
JsonError(code, msg) == [status |-> code, error |-> msg, gamePasses |-> <<>>]

\* the comparison turned into expiresAt >= now
CacheFreshInclusive(e) == e.has /\ e.expiresIn >= 0

\* cached && cached.expiresAt > now
CacheFresh(e) == e.has /\ e.expiresIn > 0

\* an empty result not cached
CacheSetNonEmpty(c, key, data) ==
  IF data = <<>> THEN c
  ELSE [c EXCEPT ![key] = [has |-> TRUE, expiresIn |-> CACHE_TTL_MS, age |-> 0,
                           data |-> data]]

\* the result returned without being cached
CacheSetSkipped(c, key, data) == c

\* cache.set(userId, { expiresAt: Date.now() + CACHE_TTL_MS, data })
CacheSet(c, key, data) ==
  [c EXCEPT ![key] = [has |-> TRUE, expiresIn |-> CACHE_TTL_MS, age |-> 0,
                      data |-> data]]

\* the check left out: every request starts a traversal of its own
InFlightHasNever(m, key) == FALSE

\* inFlight.has(userId)
InFlightHas(m, key) == m[key] # 0

\* the finally block left out
InFlightDeleteNever(m, key) == m

\* inFlight.delete(userId)
InFlightDelete(m, key) == [m EXCEPT ![key] = 0]

\* d milliseconds pass for the cache
CacheElapse(c, d) ==
  [k \in Keys |->
     IF c[k].has
     THEN [c[k] EXCEPT !.expiresIn = Left(c[k].expiresIn, d),
                       !.age = Min(c[k].age + d, CACHE_TTL_MS)]
     ELSE c[k]]

Init ==
  /\ ticks = 0
  /\ faults = 0
  /\ cache = [k \in Keys |-> NoEntry]
  /\ inFlight = [k \in Keys |-> 0]
  /\ trav = [r \in Requests |-> NoTrav]
  /\ req = [r \in Requests |-> NoReq]
  /\ arrived = 0

\* ------------------------------------------------------------------------
\* app.get("/gamepasses/:userId"): the handler up to its first await
\* ------------------------------------------------------------------------
\* The record of a request that has been answered, and of the traversal it
\* awaited, is kept until the next request is received: from then on only
\* that it was answered (and how the traversal ended) is kept.
Retired(rq) ==
  [q \in Requests |->
     IF rq[q].st = "done" THEN [NoReq EXCEPT !.st = "done"] ELSE rq[q]]

RetiredTrav(tv) ==
  [q \in Requests |->
     IF tv[q].st \in {"ok", "fail"} THEN [NoTrav EXCEPT !.st = tv[q].st]
     ELSE tv[q]]

Received(u, key, st, on, via, resp) ==
  [st |-> st, userId |-> u, key |-> key, on |-> on, via |-> via,
   seen |-> cache[key], resp |-> resp]

Get(r, u) ==
  LET key == KeyOf(u) IN
  /\ arrived = r - 1
  /\ arrived' = r
  /\ UNCHANGED <<ticks, faults>>
  /\ IF key = <<>>
     THEN /\ req' = [Retired(req) EXCEPT ![r] =
                       Received(u, key, "done", 0, "invalid",
                                JsonError(400, "missing userId"))]
          /\ trav' = RetiredTrav(trav)
          /\ UNCHANGED <<cache, inFlight>>
     ELSE IF CacheFresh(cache[key])
     THEN /\ req' = [Retired(req) EXCEPT ![r] =
                       Received(u, key, "done", 0, "cache",
                                Json200(cache[key].data))]
          /\ trav' = RetiredTrav(trav)
          /\ UNCHANGED <<cache, inFlight>>
     ELSE IF InFlightHas(inFlight, key)
     THEN /\ req' = [Retired(req) EXCEPT ![r] =
                       Received(u, key, "wait", inFlight[key], "join", NoResponse)]
          /\ trav' = RetiredTrav(trav)
          /\ UNCHANGED <<cache, inFlight>>
     ELSE /\ req' = [Retired(req) EXCEPT ![r] =
                       Received(u, key, "wait", r, "own", NoResponse)]
          /\ trav' = [RetiredTrav(trav) EXCEPT ![r] = NewTrav(key)]
          /\ inFlight' = [inFlight EXCEPT ![key] = r]
          /\ UNCHANGED cache

\* ------------------------------------------------------------------------
\* The in-flight promise: the traversal's steps and its completion
\* ------------------------------------------------------------------------
\* the catch block of the handler
CatchResponse == JsonError(500, "Failed to fetch gamepasses")

\* a joiner that answers a failure in a shape of its own
JoinerResponseOwnError(tr) ==
  IF tr.st = "ok" THEN Json200(tr.result)
  ELSE JsonError(502, "Failed to fetch gamepasses")

\* const existing = await inFlight.get(userId);
\* return res.json({ gamePasses: existing });
JoinerResponse(tr) == IF tr.st = "ok" THEN Json200(tr.result) ELSE CatchResponse

\* const resultArray = await promise;
\* return res.json({ gamePasses: resultArray });
OwnerResponse(tr) == IF tr.st = "ok" THEN Json200(tr.result) ELSE CatchResponse

\* only the request that created the promise resumes
ResumeOwnerOnly(rq, o, tr2) ==
  [q \in Requests |->
     IF q = o /\ rq[q].st = "wait" /\ rq[q].on = o /\ tr2.st \in {"ok", "fail"}
     THEN [rq[q] EXCEPT !.st = "done", !.resp = OwnerResponse(tr2)]
     ELSE rq[q]]

\* the handlers awaiting o's promise resume when it settles, and respond
Resume(rq, o, tr2) ==
  [q \in Requests |->
     IF rq[q].st = "wait" /\ rq[q].on = o /\ tr2.st \in {"ok", "fail"}
     THEN [rq[q] EXCEPT !.st = "done",
                        !.resp = IF q = o THEN OwnerResponse(tr2)
                                 ELSE JoinerResponse(tr2)]
     ELSE rq[q]]

\* the async function stored in inFlight, once the traversal of request o
\* has made a step to tr2, d milliseconds later: on return the result is
\* cached, and in every case that ends the traversal the finally block
\* unregisters the key
Continue(o, tr2, d) ==
  /\ trav' = [r \in Requests |-> IF r = o THEN tr2 ELSE TravElapse(trav[r], d)]
  /\ cache' = IF tr2.st = "ok"
              THEN CacheSet(CacheElapse(cache, d), tr2.key, tr2.result)
              ELSE CacheElapse(cache, d)
  /\ inFlight' = IF tr2.st \in {"ok", "fail"}
                 THEN InFlightDelete(inFlight, tr2.key)
                 ELSE inFlight
  /\ req' = Resume(req, o, tr2)

Running(o) == trav[o].st = "run"

\* ------------------------------------------------------------------------
\* The upstream: what it may answer
\* ------------------------------------------------------------------------
RecA == Raw(Num(55), Undef, Str(<<"V", "I", "P">>), Undef, Num(100))

RecB == Raw(Undef, Num(7), Undef, Undef, Undef)

RecC == Raw(Undef, Undef, Str(<<"X">>), Undef, Num(5))

\* retry-after header values: absent, "2", "0", and a non-numeric one
Hints == {Null, Str(<<"2">>), Str(<<"0">>), Str(<<"s", "o", "o", "n">>)}

\* the JSON bodies of the paginated endpoints, over the data collections ds
\* and the continuation cursors cs
JsonBodies(ds, cs) == {Body("obj", TRUE, d, c) : d \in ds, c \in {Null} \cup cs}

\* a small upstream: it answers a page of zero or one record, or does not
\* answer (the attempt times out); more: a continuation cursor may be present
FewResponses(more) ==
  {Http(200, Null, "json", TRUE, TRUE, "json", j) :
     j \in JsonBodies({<<>>, <<RecA>>}, IF more THEN {Str(<<"x">>)} ELSE {})}

\* the whole upstream: every status class, header and body the transport
\* and the pager tell apart
AllResponses(more) ==
  {Reject("network")}
  \cup {Http(st, h, "", FALSE, FALSE, "", NullBody) : st \in {429, 503}, h \in Hints}
  \cup {Http(500, Null, "", FALSE, FALSE, "", NullBody)}
  \cup {Http(404, Null, "json", TRUE, TRUE, "{}", Body("obj", FALSE, <<>>, Undef)),
        Http(404, Null, "other", TRUE, FALSE, "<html>", NullBody),
        Http(404, Null, "other", FALSE, FALSE, "", NullBody)}
  \cup {Http(200, Null, "json", TRUE, TRUE, "json", j) :
          j \in JsonBodies({<<>>, <<RecA>>, <<RecB, RecC>>},
                           IF more THEN {Str(<<"x">>), Str(<<"y">>)} ELSE {})
                \cup {Body("arr", FALSE, <<RecB>>, Undef), NullBody}}
  \cup {Http(200, Null, "other", TRUE, TRUE, "json", Body("obj", TRUE, <<RecA>>, Null)),
        Http(200, Null, "json", TRUE, FALSE, "<html>", NullBody),
        Http(200, Null, "other", TRUE, FALSE, "<html>", NullBody)}

\* whether the upstream may still hand a continuation cursor to tr
MorePages(tr) == tr.phase = "primary" /\ Len(tr.sent) < MaxPages

\* the clock steps taken between events: to just before, and to, the end of
\* a cache entry's life
TickSteps == {CACHE_TTL_MS - 1, CACHE_TTL_MS}

\* ------------------------------------------------------------------------
\* Events
\* ------------------------------------------------------------------------
\* the pending fetch of o's traversal settles with r before its timeout
UpstreamResponds(o, r) ==
  LET tr == trav[o]
      step == OnResponse(tr.call, r)
  IN /\ Running(o)
     /\ tr.call.st = "fetch"
     /\ tr.call.timeLeft > 0
     /\ step[2] = "retry" => faults < MaxFaults
     /\ faults' = IF step[2] = "retry" THEN faults + 1 ELSE faults
     /\ Continue(o, AfterStep(tr, step), 0)
     /\ UNCHANGED <<ticks, arrived>>

\* the timeout of the pending fetch fires: controller.abort()
AttemptTimesOut(o) ==
  LET tr == trav[o] IN
  /\ Running(o)
  /\ tr.call.st = "fetch"
  /\ faults < MaxFaults
  /\ faults' = faults + 1
  /\ Continue(o, AfterStep(tr, OnResponse(tr.call, Reject("abort"))),
              tr.call.timeLeft)
  /\ UNCHANGED <<ticks, arrived>>

\* the timer of the pending sleep fires, once it is due
TimerFires(o) ==
  LET tr == trav[o]
      due == CallElapse(tr.call, tr.call.remaining)
  IN /\ Running(o)
     /\ tr.call.st = "sleep"
     /\ Continue(o, AfterStep([tr EXCEPT !.call = due], OnWake(due)),
                 tr.call.remaining)
     /\ UNCHANGED <<ticks, faults, arrived>>

\* time passes
Advance(d) ==
  /\ ticks < MaxTicks
  /\ ticks' = ticks + 1
  /\ cache' = CacheElapse(cache, d)
  /\ trav' = [r \in Requests |-> TravElapse(trav[r], d)]
  /\ UNCHANGED <<faults, inFlight, req, arrived>>

\* the service under MaxReq requests and the small upstream
Next ==
  \/ \E r \in Requests, u \in UserIds : Get(r, u)
  \/ \E o \in Requests : \E r \in FewResponses(MorePages(trav[o])) :
       UpstreamResponds(o, r)
  \/ \E o \in Requests : AttemptTimesOut(o)
  \/ \E o \in Requests : TimerFires(o)
  \/ \E d \in TickSteps : Advance(d)

Spec == Init /\ [][Next]_vars

\* one request against the whole upstream
NextFetch ==
  \/ \E u \in UserIds : Get(1, u)
  \/ \E r \in AllResponses(MorePages(trav[1])) : UpstreamResponds(1, r)
  \/ AttemptTimesOut(1)
  \/ TimerFires(1)

SpecFetch == Init /\ [][NextFetch]_vars

\* the properties a raw record may have
RawRecords ==
  {Raw(a, i, n, t, p) :
     a \in {Undef, Num(0), Num(55), Str(<<"5", "5">>)},
     i \in {Undef, Null, Num(7), Str(<<"x">>)},
     n \in {Undef, Str(<<"V", "I", "P">>), Str(<<>>)},
     t \in {Undef, Str(<<"T">>)},
     p \in {Undef, Null, Num(100), Str(<<"1", "0", "0">>), Str(<<"a", "b", "c">>)}}

\* an upstream that answers one page of one record, in either envelope, or
\* an empty page
OneRecordResponses ==
  {Http(200, Null, "json", TRUE, TRUE, "json", j) :
     j \in {Body("obj", TRUE, <<>>, Null)}
           \cup {Body("obj", TRUE, <<g>>, Null) : g \in RawRecords}
           \cup {Body("arr", FALSE, <<g>>, Undef) : g \in RawRecords}}

\* one request whose pages hold any one raw record
NextNorm ==
  \/ \E u \in UserIds : Get(1, u)
  \/ \E r \in OneRecordResponses : UpstreamResponds(1, r)

SpecNorm == Init /\ [][NextNorm]_vars

\* the pending fetch of o's traversal settles: the upstream answers, or the
\* abort timer set beside the fetch fires
Settles(o) ==
  \/ \E r \in FewResponses(MorePages(trav[o])) : UpstreamResponds(o, r)
  \/ AttemptTimesOut(o)

\* two requests, the second of which may join the traversal of the first or
\* start its own, with the callbacks run as the event loop runs them
NextLive ==
  \/ \E r \in {1, 2}, u \in UserIds : Get(r, u)
  \/ \E o \in {1, 2} : Settles(o)
  \/ \E o \in {1, 2} : TimerFires(o)

\* every pending fetch settles (by a response, or at the latest by its
\* abort timer) and every pending sleep timer fires
SpecLive ==
  /\ Init /\ [][NextLive]_vars
  /\ \A o \in {1, 2} : WF_vars(Settles(o)) /\ WF_vars(TimerFires(o))

\* ------------------------------------------------------------------------
\* Properties
\* ------------------------------------------------------------------------
\* the traversals in progress for key k
RunningFor(k) == {o \in Requests : trav[o].st = "run" /\ trav[o].key = k}

\* the requests awaiting the promise of request o
WaitingOn(o) == {q \in Requests : req[q].st = "wait" /\ req[q].on = o}

\* C1: for every key at most one traversal is in progress at any instant;
\* every request that is waiting for a key waits on that one traversal, and
\* a request that joined it started no traversal of its own.
C1_OneTraversalPerKey ==
  /\ \A k \in Keys : Cardinality(RunningFor(k)) <= 1
  /\ \A q \in Requests :
       req[q].st = "wait" =>
         /\ RunningFor(req[q].key) = {req[q].on}
         /\ req[q].via = "join" => req[q].on # q /\ trav[q].st = "idle"

\* three requests for one key, not all spelled alike, wait on one traversal
C1_Witness ==
  /\ Cardinality(WaitingOn(1)) = 3
  /\ \E q \in Requests : req[q].userId # req[1].userId
  /\ Cardinality(RunningFor(req[1].key)) = 1

\* C2: a request that joined an in-flight traversal is answered when the
\* request that started it is, and with the same response: the traversal's
\* normalized records with status 200, or the same 500 error body.
C2_SameOutcome ==
  /\ \A q \in Requests : req[q].st = "wait" => trav[req[q].on].st = "run"
  /\ \A q \in Requests :
       req[q].st = "done" /\ req[q].via = "join" =>
         LET o == req[q].on IN
         /\ req[o].st = "done" /\ req[o].via = "own"
         /\ req[q].resp = req[o].resp
         /\ \/ /\ trav[o].st = "ok"
               /\ req[q].resp = [status |-> 200, error |-> "",
                                 gamePasses |-> trav[o].result]
            \/ /\ trav[o].st = "fail"
               /\ req[q].resp = [status |-> 500,
                                 error |-> "Failed to fetch gamepasses",
                                 gamePasses |-> <<>>]

\* a joiner answered with the failure of the traversal it joined
C2_Witness ==
  \E q \in Requests :
    /\ req[q].st = "done" /\ req[q].via = "join"
    /\ req[q].resp.status = 500
    /\ trav[req[q].on].st = "fail"

\* a request received for a key, with what the cache held for it then
Served(r) == req[r].st \in {"wait", "done"} /\ req[r].via \in {"cache", "join", "own"}

C3_Requests ==
  \A r \in Requests :
    Served(r) =>
      /\ req[r].seen.has /\ req[r].seen.age < CACHE_TTL_MS =>
           /\ req[r].via = "cache" /\ req[r].st = "done"
           /\ req[r].resp = [status |-> 200, error |-> "",
                             gamePasses |-> req[r].seen.data]
           /\ trav[r].st = "idle"
      /\ req[r].seen.has /\ req[r].seen.age >= CACHE_TTL_MS => req[r].via # "cache"
      /\ ~req[r].seen.has => req[r].via # "cache"

C3_Entries ==
  \A k \in Keys :
    cache[k].has /\ cache[k].age < CACHE_TTL_MS =>
      /\ cache'[k].has
      /\ cache'[k].data = cache[k].data
      /\ cache'[k].age >= cache[k].age

\* C3: an entry stored at time t keeps its records until t + CACHE_TTL_MS;
\* a request received before then (age < CACHE_TTL_MS) is answered with
\* them and starts or joins no traversal; a request received at or after
\* t + CACHE_TTL_MS is not answered from the cache.
C3_CacheFreshness == [](C3_Requests) /\ [][C3_Entries]_vars

\* a request answered from an entry one millisecond before it expires
C3_Witness ==
  \E r \in Requests :
    /\ req[r].via = "cache"
    /\ req[r].seen.age = CACHE_TTL_MS - 1
    /\ Len(req[r].resp.gamePasses) > 0

\* a userId of blanks only
Blank(u) == \A i \in 1..Len(u) : u[i] = " "

C4_Step ==
  \A r \in Requests :
    req[r].st = "new" /\ req'[r].st # "new" /\ Blank(req'[r].userId) =>
      /\ req'[r].st = "done"
      /\ req'[r].resp.status \in 400..499
      /\ req'[r].resp.error = "missing userId"
      /\ cache' = cache
      /\ inFlight' = inFlight
      /\ \A o \in Requests : trav'[o].st = "run" => trav'[o] = trav[o]

\* C4: a request whose userId is empty after trimming is answered 4xx with
\* { error: "missing userId" }; the step that receives it changes neither
\* the cache nor the in-flight map and starts or advances no traversal.
C4_MissingUserId == [][C4_Step]_vars

\* a blank userId rejected while a traversal is in flight
C4_Witness ==
  \E r, o \in Requests :
    /\ Blank(req[r].userId) /\ req[r].st = "done"
    /\ req[r].resp = [status |-> 400, error |-> "missing userId", gamePasses |-> <<>>]
    /\ trav[o].st = "run"

C5_Step ==
  \A o \in Requests :
    /\ trav[o].st = "run" /\ trav[o].phase = "primary"
    /\ trav[o].call.st = "sleep" /\ trav[o].call.attempt > MAX_RETRIES
    /\ trav'[o].call.st # "sleep"
    => /\ trav'[o].st = "fail"
       /\ \A k \in Keys : /\ cache'[k].has = cache[k].has
                          /\ cache'[k].data = cache[k].data
       /\ \A q \in WaitingOn(o) :
            /\ req'[q].st = "done"
            /\ req'[q].resp.status \in 500..599
            /\ req'[q].resp.gamePasses = <<>>

\* C5: when a transport call of the primary pagination has used up its
\* attempts, the traversal fails: the step that ends the call leaves every
\* cache entry's presence and records as they were, and answers every
\* request waiting on the traversal with a 5xx error and no records.
C5_PrimaryFailure == [][C5_Step]_vars

\* a traversal that failed on its second page, after collecting a record,
\* with an older entry still in the cache
C5_Witness ==
  \E o \in Requests :
    /\ trav[o].st = "fail" /\ Len(trav[o].collected) > 0
    /\ req[o].resp.status = 500
    /\ cache[trav[o].key].has

\* a page that returns a continuation cursor: a non-empty string
HasCursor(d) ==
  d.shape = "obj" /\ d.nextPageCursor.t = "str" /\ Len(d.nextPageCursor.s) > 0

RECURSIVE PrimaryRecords(_)
\* the records of the primary pages, page after page
PrimaryRecords(ps) ==
  IF ps = <<>> THEN <<>> ELSE PageRecords(Head(ps)) \o PrimaryRecords(Tail(ps))

\* the primary loop has ended without error: its last page had no cursor
LoopEnded(tr) == Len(tr.pages) > 0 /\ ~HasCursor(tr.pages[Len(tr.pages)])

\* one call per page, the cursors chained, no call after a cursorless page
C6_Calls(tr) ==
  /\ tr.sent[1] = Null
  /\ \A i \in 2..Len(tr.sent) :
       /\ i - 1 <= Len(tr.pages)
       /\ HasCursor(tr.pages[i - 1])
       /\ tr.sent[i] = tr.pages[i - 1].nextPageCursor
  /\ \A i \in 1..Len(tr.pages) :
       IF HasCursor(tr.pages[i]) THEN Len(tr.sent) > i
       ELSE i = Len(tr.pages) /\ Len(tr.sent) = i
  /\ Len(tr.sent) = Len(tr.pages) + (IF LoopEnded(tr) THEN 0 ELSE 1)

\* C6, as amended: the pager makes one transport call per primary page, the
\* first without a cursor and each later one with the cursor of the page
\* before, and none after the first page without a cursor; when the pages
\* hold at least one record, the result is their normalized records in page
\* order (and no fallback call is made).
C6_Pagination ==
  \A o \in Requests :
    trav[o].st # "idle" =>
      /\ C6_Calls(trav[o])
      /\ trav[o].st = "ok" /\ PrimaryRecords(trav[o].pages) # <<>> =>
           /\ trav[o].result = NormalizedAll(PrimaryRecords(trav[o].pages))
           /\ trav[o].fallbacks = 0

\* C6 as claimed: the result is the normalized records of the visited
\* primary pages, whatever they hold
C6_AsClaimed ==
  \A o \in Requests :
    trav[o].st # "idle" =>
      /\ C6_Calls(trav[o])
      /\ trav[o].st = "ok" =>
           trav[o].result = NormalizedAll(PrimaryRecords(trav[o].pages))

\* pages [{data:[a], cursor:"x"}, {data:[b, c], cursor:null}] give [a, b]
\* (c has no id) by two calls, the second carrying "x"
C6_Witness ==
  \E o \in Requests :
    /\ trav[o].st = "ok"
    /\ trav[o].sent = <<Null, Str(<<"x">>)>>
    /\ Len(trav[o].pages) = 2
    /\ trav[o].pages[1].items = <<RecA>> /\ trav[o].pages[2].items = <<RecB, RecC>>
    /\ Len(trav[o].result) = 2
    /\ trav[o].result[1].id = Num(55) /\ trav[o].result[2].id = Num(7)

C7_Fallback(tr, most) ==
  /\ PrimaryRecords(tr.pages) # <<>> => tr.fallbacks = 0 /\ tr.fbFetches = 0
  /\ ~LoopEnded(tr) => tr.fallbacks = 0 /\ tr.fbFetches = 0
  /\ LoopEnded(tr) /\ PrimaryRecords(tr.pages) = <<>> =>
       tr.fallbacks = 1 /\ tr.fbFetches \in 1..most

\* C7, as amended: the secondary endpoint is not called when the primary
\* pagination collected a record or failed; when it ended without error and
\* without a record, exactly one transport call is made to the secondary
\* endpoint, and that call issues between 1 and MAX_RETRIES + 1 requests.
C7_FallbackOnlyOnEmpty ==
  \A o \in Requests :
    trav[o].st # "idle" => C7_Fallback(trav[o], MAX_RETRIES + 1)

\* C7 as claimed: the secondary endpoint is queried exactly once
C7_AsClaimed ==
  \A o \in Requests :
    trav[o].st # "idle" => C7_Fallback(trav[o], 1)

\* an empty primary page, then a fallback call that used all four attempts
\* and was swallowed
C7_Witness ==
  \E o \in Requests :
    /\ trav[o].st = "ok" /\ LoopEnded(trav[o])
    /\ PrimaryRecords(trav[o].pages) = <<>>
    /\ trav[o].fallbacks = 1 /\ trav[o].fbFetches = 4
    /\ trav[o].result = <<>>

C8_Attempts ==
  /\ MAX_RETRIES + 1 = 4
  /\ \A o \in Requests : trav[o].call.nfetch <= 4 /\ trav[o].call.attempt <= 4

C8_Ends ==
  \A o \in Requests :
    /\ trav[o].call.st = "sleep" /\ trav[o].call.nfetch = 4
    /\ trav'[o].call.st # "sleep"
    => trav'[o].call.st = "idle" /\ trav'[o].st \in {"ok", "fail"}

\* C8: one transport call issues at most MAX_RETRIES + 1 = 4 fetches,
\* whatever the upstream answers; after the fourth has failed the call ends
\* (it throws) and no fifth is issued.
C8_RetryBound == [](C8_Attempts) /\ [][C8_Ends]_vars

\* a primary call that threw after four fetches
C8_Witness ==
  \E o \in Requests :
    /\ trav[o].st = "fail"
    /\ trav[o].call.nfetch = 4 /\ trav[o].call.attempt = 4

\* a retry-after value that is a number of seconds
NumericHint(h) == h.t = "str" /\ h.s # <<>> /\ AllDigits(h.s)

\* C9: after a 429 or 503 with a retry-after of h seconds the call sleeps
\* h * 1000 ms and the next fetch is issued no earlier than that; without a
\* retry-after it sleeps 400 * 2^k ms, k the number of attempts that failed
\* before this one.
C9_Backoff ==
  \A o \in Requests :
    LET c == trav[o].call IN
    /\ trav[o].st = "run" /\ c.st \in {"sleep", "fetch"}
    /\ c.cause.kind = "http" /\ c.cause.status \in {429, 503}
    => /\ NumericHint(c.cause.retryAfter) =>
            /\ c.wait = Num(DigitsValue(c.cause.retryAfter.s) * 1000)
            /\ c.st = "fetch" => c.slept >= DigitsValue(c.cause.retryAfter.s) * 1000
       /\ c.cause.retryAfter = Null =>
            /\ c.wait = Num(400 * (2 ^ (c.attempt - 1)))
            /\ c.st = "fetch" => c.slept >= 400 * (2 ^ (c.attempt - 1))

\* a fetch issued 2000 ms after a 429 that carried retry-after "2"
C9_Witness ==
  \E o \in Requests :
    LET c == trav[o].call IN
    /\ c.st = "fetch" /\ c.cause.status = 429
    /\ c.cause.retryAfter = Str(<<"2">>)
    /\ c.slept = 2000

\* the raw record a one-record result stems from: the fallback page's when
\* the fallback was called, the first primary page's otherwise
SourceOf(tr) ==
  IF Len(tr.fbPages) > 0 THEN tr.fbPages[1].items[1] ELSE tr.pages[1].items[1]

\* the placeholder name of raw record g on normalized record n
C10_Placeholder(g, n) ==
  \E x \in {g.assetId, g.id} :
    /\ x # Undef /\ x # Null
    /\ n.id = ToNumber(x)
    /\ n.name = Str(<<"G", "a", "m", "e", "p", "a", "s", "s", " ">> \o ToStr(x))

\* a traversal that returned one record
OneRecord(tr) == tr.st = "ok" /\ Len(tr.result) = 1

\* C10, as amended: a raw record without a price is normalized to price 0;
\* a raw record with neither a name nor a title is normalized to the name
\* "Gamepass " + its identifier, in each of the three shapes.
C10_NormalizationDefaults ==
  \A o \in Requests :
    OneRecord(trav[o]) =>
      LET g == SourceOf(trav[o])
          n == trav[o].result[1]
      IN /\ g.price = Undef => n.price = Num(0)
         /\ g.name = Undef /\ g.title = Undef => C10_Placeholder(g, n)

\* C10 as claimed: every record without a name gets "Gamepass " + id
C10_AsClaimed ==
  \A o \in Requests :
    OneRecord(trav[o]) =>
      LET g == SourceOf(trav[o])
          n == trav[o].result[1]
      IN /\ g.price = Undef => n.price = Num(0)
         /\ g.name = Undef => C10_Placeholder(g, n)

\* a fallback record with an id only, normalized to "Gamepass 7" at price 0
C10_Witness ==
  \E o \in Requests :
    /\ trav[o].st = "ok" /\ Len(trav[o].result) = 1 /\ Len(trav[o].fbPages) = 1
    /\ SourceOf(trav[o]) = Raw(Undef, Num(7), Undef, Undef, Undef)
    /\ trav[o].result[1] =
         [id |-> Num(7), price |-> Num(0),
          name |-> Str(<<"G", "a", "m", "e", "p", "a", "s", "s", " ", "7">>)]

\* a record whose id is an integer and whose price is an integer >= 0
WellFormed(n) == n.id.t = "num" /\ n.price.t = "num" /\ n.price.n >= 0

\* C11 as claimed: every record of a response or of a cache entry has an
\* integer id and an integer price >= 0 (a record whose id cannot be
\* coerced is dropped, a price that is not numeric becomes 0).
C11_AsClaimed ==
  /\ \A r \in Requests :
       \A i \in 1..Len(req[r].resp.gamePasses) : WellFormed(req[r].resp.gamePasses[i])
  /\ \A k \in Keys :
       \A i \in 1..Len(cache[k].data) : WellFormed(cache[k].data[i])

C12_Registered ==
  \A k \in Keys :
    IF RunningFor(k) = {} THEN inFlight[k] = 0 ELSE RunningFor(k) = {inFlight[k]}

C12_Step ==
  \A r, o \in Requests :
    /\ req[r].st = "new" /\ req'[r].st # "new"
    /\ req'[r].key # <<>>
    /\ trav[o].st = "fail" /\ trav[o].key = req'[r].key
    => /\ req'[r].st = "wait" /\ req'[r].via = "own" /\ req'[r].on = r
       /\ trav'[r].st = "run" /\ trav'[r].call.st = "fetch"
       /\ inFlight'[req'[r].key] = r

\* C12: the in-flight map has an entry for a key exactly while a traversal
\* for that key is running, and the entry names it; the entry is gone when
\* the traversal has ended, by return or by throw; the first request for a
\* key after its traversal failed starts a traversal of its own and is not
\* answered with the earlier failure.
C12_Unregistered == [](C12_Registered) /\ [][C12_Step]_vars

\* a request running its own traversal after an earlier traversal failed
C12_Witness ==
  \E r, o \in Requests :
    /\ trav[o].st = "fail" /\ req[o].st = "done"
    /\ r > o /\ req[r].st = "wait" /\ req[r].via = "own"
    /\ trav[r].st = "run" /\ inFlight[req[r].key] = r

\* the failure of the attempt that got the response c: the rejection of
\* the fetch, the bad status, or the unusable body of a 2xx
FailureOf(c) ==
  IF c.kind = "reject" THEN Error(c.err, 0)
  ELSE IF c.status >= 400 THEN Error("HTTP", c.status)
  ELSE Error("body", 0)

\* C13 as claimed: a transport call that has used up its attempts throws,
\* and what it throws is the failure of its last attempt.
C13_AsClaimed ==
  \A o \in Requests :
    trav[o].st = "fail" => trav[o].error = FailureOf(trav[o].call.cause)

\* a 4xx status other than 429
Terminal4xx(st) == st >= 400 /\ st < 500 /\ st # 429

\* C14 as claimed: after a non-429 4xx response the call neither sleeps
\* nor fetches again, whether or not the body could be read or parsed.
C14_AsClaimed ==
  \A o \in Requests :
    LET c == trav[o].call IN
    c.cause.kind = "http" /\ Terminal4xx(c.cause.status) =>
      c.st \notin {"sleep", "fetch"}

\* the readable non-429 4xx responses of the upstream
Readable4xx ==
  {r \in AllResponses(FALSE) : r.kind = "http" /\ Terminal4xx(r.status) /\ r.readable}

\* what the pager received last from the endpoint that tr was calling
HandedToPager(tr, after) ==
  IF tr.phase = "primary" THEN after.pages[Len(after.pages)]
  ELSE after.fbPages[Len(after.fbPages)]

\* the pager has taken one more page from the endpoint that tr was calling
TakenAsPage(tr, after) ==
  /\ after.st # "fail"
  /\ IF tr.phase = "primary"
     THEN Len(after.pages) = Len(tr.pages) + 1 /\ after.fbPages = tr.fbPages
     ELSE Len(after.fbPages) = Len(tr.fbPages) + 1 /\ after.pages = tr.pages

C15_Step ==
  \A o \in Requests : \A r \in Readable4xx :
    UpstreamResponds(o, r) =>
      /\ TakenAsPage(trav[o], trav'[o])
      /\ r.parses => HandedToPager(trav[o], trav'[o]) = r.json
      /\ ~r.parses =>
           /\ HandedToPager(trav[o], trav'[o]) =
                [shape |-> "obj", isArr |-> FALSE, items |-> <<>>,
                 nextPageCursor |-> Undef, wrap |-> "error",
                 text |-> r.text, status |-> r.status]
           /\ trav[o].phase = "primary" =>
                /\ trav'[o].collected = trav[o].collected
                /\ LoopEnded(trav'[o])

C15_StepAsClaimed ==
  \A o \in Requests : \A r \in Readable4xx :
    UpstreamResponds(o, r) =>
      IF r.parses
      THEN /\ TakenAsPage(trav[o], trav'[o])
           /\ HandedToPager(trav[o], trav'[o]) = r.json
      ELSE /\ trav'[o].pages = trav[o].pages /\ trav'[o].fbPages = trav[o].fbPages
           /\ trav[o].phase = "primary" =>
                trav'[o].st = "fail" /\ trav'[o].error = Error("HTTP", r.status)

Unparsable2xx ==
  {r \in AllResponses(FALSE) :
     r.kind = "http" /\ r.status >= 200 /\ r.status < 300 /\ r.readable /\ ~r.parses}

\* the pager was handed { raw: <text of r> } as the page of its call
WrappedRaw(tr, after, r) ==
  /\ TakenAsPage(tr, after)
  /\ HandedToPager(tr, after) =
       [shape |-> "obj", isArr |-> FALSE, items |-> <<>>,
        nextPageCursor |-> Undef, wrap |-> "raw", text |-> r.text, status |-> 0]

\* the call took the response as a transient failure: one more attempt
\* counted, a backoff sleep pending, nothing handed to the pager
Retried(tr, after) ==
  /\ after.st = "run" /\ after.phase = tr.phase
  /\ after.pages = tr.pages /\ after.fbPages = tr.fbPages
  /\ after.call.st = "sleep"
  /\ after.call.attempt = tr.call.attempt + 1
  /\ after.call.lastErr = Error("body", 0)

C16_Step ==
  \A o \in Requests : \A r \in Unparsable2xx :
    UpstreamResponds(o, r) =>
      IF r.ctype \in {"json", "plain"}
      THEN Retried(trav[o], trav'[o])
      ELSE WrappedRaw(trav[o], trav'[o], r)

\* C16, as amended: a 2xx response whose body does not parse is returned as
\* { raw: <text> }, without failure or retry, when its content type is
\* neither application/json nor text/plain; with one of these two content
\* types it is a transient failure: the attempt is counted and retried
\* after a backoff.
C16_UnparsableSuccess == [][C16_Step]_vars

C16_StepAsClaimed ==
  \A o \in Requests : \A r \in Unparsable2xx :
    UpstreamResponds(o, r) => WrappedRaw(trav[o], trav'[o], r)

\* C16 as claimed: the raw text is wrapped and returned for every content
\* type
C16_AsClaimed == [][C16_StepAsClaimed]_vars

\* a fallback call whose first attempt got an unparsable application/json
\* body and was retried, and whose second got an unparsable body of another
\* type, returned as { raw }
C16_Witness ==
  \E o \in Requests :
    /\ trav[o].st = "ok" /\ Len(trav[o].fbPages) = 1
    /\ trav[o].fbPages[1].wrap = "raw" /\ trav[o].fbPages[1].text = "<html>"
    /\ trav[o].call.nfetch = 2
    /\ trav[o].call.lastErr = Error("body", 0)
    /\ trav[o].call.cause.status = 200

C17_Step ==
  \A o \in Requests :
    /\ trav[o].st = "run" /\ trav[o].phase = "fallback"
    /\ trav[o].call.st = "sleep" /\ trav[o].call.attempt > MAX_RETRIES
    /\ trav'[o].call.st # "sleep"
    => /\ trav'[o].st = "ok"
       /\ trav'[o].result = <<>>
       /\ \A q \in WaitingOn(o) :
            /\ req'[q].st = "done"
            /\ req'[q].resp = [status |-> 200, error |-> "", gamePasses |-> <<>>]

\* C17: when the transport call to the fallback endpoint throws (its
\* attempts are used up), the traversal returns the empty sequence as a
\* success and every request waiting on it is answered 200 with
\* { gamePasses: [] }.
C17_FallbackFailureIgnored == [][C17_Step]_vars

\* a request answered { gamePasses: [] } after its traversal's fallback
\* call failed four times
C17_Witness ==
  \E o \in Requests :
    /\ trav[o].st = "ok" /\ trav[o].fallbacks = 1 /\ trav[o].fbPages = <<>>
    /\ trav[o].call.url = "fallback" /\ trav[o].call.nfetch = 4
    /\ trav[o].call.lastErr # NoError
    /\ req[o].st = "done"
    /\ req[o].resp = [status |-> 200, error |-> "", gamePasses |-> <<>>]

\* the traversal of o has ended, its registration is removed and nobody
\* is left waiting on it
Finished(o) ==
  /\ trav[o].st \in {"ok", "fail"}
  /\ req[o].st = "done"
  /\ WaitingOn(o) = {}
  /\ \A k \in Keys : inFlight[k] # o

\* a timeout ends the attempt only: the call goes to its backoff sleep and
\* the traversal keeps its place; the fetch issued after a sleep asks for
\* the same page again
C18_Step ==
  \A o \in Requests :
    /\ AttemptTimesOut(o) =>
         /\ trav'[o].st = "run" /\ trav'[o].phase = trav[o].phase
         /\ trav'[o].pages = trav[o].pages /\ trav'[o].sent = trav[o].sent
         /\ trav'[o].collected = trav[o].collected
         /\ trav'[o].call.st = "sleep"
         /\ trav'[o].call.attempt = trav[o].call.attempt + 1
    /\ TimerFires(o) /\ trav'[o].call.st = "fetch" =>
         /\ trav'[o].st = "run" /\ trav'[o].phase = trav[o].phase
         /\ trav'[o].pages = trav[o].pages /\ trav'[o].sent = trav[o].sent
         /\ trav'[o].collected = trav[o].collected
         /\ trav'[o].call.url = trav[o].call.url
         /\ trav'[o].call.cursor = trav[o].call.cursor

\* C18: when every pending fetch settles and every sleep timer fires, each
\* traversal that is running eventually ends (by return or by throw), with
\* its in-flight registration removed and every request that waited on it
\* answered; a timeout ends only the attempt it belongs to.
C18_RunsToCompletion ==
  /\ \A o \in Requests : (trav[o].st = "run") ~> Finished(o)
  /\ \A q \in Requests : (req[q].st = "wait") ~> (req[q].st = "done")
  /\ [][C18_Step]_vars

\* a traversal that ended with records after an attempt of its second page
\* had timed out, with a joiner answered
C18_Witness ==
  \E o, q \in Requests :
    /\ Finished(o) /\ trav[o].st = "ok"
    /\ Len(trav[o].pages) = 2 /\ Len(trav[o].result) = 2
    /\ trav[o].call.cause.err = "abort"
    /\ q # o /\ req[q].via = "join" /\ req[q].on = o /\ req[q].st = "done"

\* the key is registered in flight or has a cache entry that is not expired
Covered(k) == inFlight[k] # 0 \/ (cache[k].has /\ cache[k].expiresIn > 0)

C19_Window ==
  \A k \in Keys :
    /\ RunningFor(k) # {} => inFlight[k] # 0
    /\ cache[k].has /\ cache[k].age < CACHE_TTL_MS => cache[k].expiresIn > 0

C19_Step ==
  /\ \A o \in Requests :
       trav[o].st = "run" /\ trav'[o].st = "ok" =>
         /\ inFlight[trav[o].key] = o
         /\ inFlight'[trav[o].key] = 0
         /\ cache'[trav[o].key] =
              [has |-> TRUE, expiresIn |-> CACHE_TTL_MS, age |-> 0,
               data |-> trav'[o].result]
  /\ \A r \in Requests :
       /\ req[r].st = "new" /\ req'[r].st # "new"
       /\ Covered(req'[r].key)
       => /\ req'[r].via \in {"cache", "join"}
          /\ trav'[r].st = "idle"
          /\ inFlight' = inFlight

\* C19: the step that ends a traversal with success stores the cache entry
\* and removes the in-flight registration together; while the traversal
\* runs its key is registered, and from its end until CACHE_TTL_MS later
\* the entry is fresh; a request received while its key is registered or
\* freshly cached starts no traversal.
C19_NoGap == [](C19_Window) /\ [][C19_Step]_vars

\* a request received at the instant a traversal succeeded, served from the
\* entry just written
C19_Witness ==
  \E r \in Requests :
    /\ req[r].st = "done" /\ req[r].via = "cache"
    /\ req[r].seen.age = 0 /\ Len(req[r].seen.data) > 0
    /\ req[r].resp.gamePasses = req[r].seen.data
    /\ trav[r].st = "idle"

C20_Requests ==
  \A r \in Requests :
    /\ Served(r)
    /\ req[r].seen.has /\ req[r].seen.data = <<>> /\ req[r].seen.age < CACHE_TTL_MS
    => /\ req[r].st = "done" /\ req[r].via = "cache"
       /\ req[r].resp = [status |-> 200, error |-> "", gamePasses |-> <<>>]
       /\ trav[r].st = "idle"

C20_Step ==
  \A o \in Requests :
    trav[o].st = "run" =>
      /\ trav'[o].st = "ok" =>
           /\ cache'[trav[o].key].has /\ cache'[trav[o].key].age = 0
           /\ cache'[trav[o].key].data = trav'[o].result
      /\ trav'[o].st = "fail" =>
           /\ cache'[trav[o].key].has = cache[trav[o].key].has
           /\ cache'[trav[o].key].data = cache[trav[o].key].data
           /\ cache'[trav[o].key].expiresIn = 0

\* C20: a traversal that returns, with or without records (also when its
\* fallback call failed and was ignored), writes a cache entry with its
\* result; an entry holding the empty sequence answers every request for
\* its key within CACHE_TTL_MS with { gamePasses: [] } and no traversal; a
\* traversal that throws writes nothing.
C20_EmptyCached == [](C20_Requests) /\ [][C20_Step]_vars

\* a request answered { gamePasses: [] } from an entry written by a
\* traversal that found nothing, one millisecond before the entry expires
C20_Witness ==
  \E r \in Requests :
    /\ req[r].st = "done" /\ req[r].via = "cache"
    /\ req[r].seen.has /\ req[r].seen.data = <<>>
    /\ req[r].seen.age = CACHE_TTL_MS - 1
    /\ req[r].resp = [status |-> 200, error |-> "", gamePasses |-> <<>>]

=============================================================================
